---- MODULE Spec2Model ----
(***************************************************************************)
(* SolanaDistributorClient (packages/distributor/solana/client.ts): the    *)
(* instruction composers of create, claim and clawback, and the pipeline   *)
(* read state -> compose -> prepare transaction -> submit.                 *)
(*                                                                         *)
(* One client call is in progress at a time; it advances from one await to *)
(* the next, and the wall clock may advance between two such steps.        *)
(***************************************************************************)
EXTENDS Integers, Sequences, FiniteSets, TLC

\* ------------------------------------------------------------------ bounds
MaxNow == 4            \* the wall clock runs over 0..MaxNow (whole seconds)
MaxTs == 1             \* vesting start timestamps range over 0..MaxTs
MaxPeriod == 2         \* unlock periods range over 0..MaxPeriod
MaxLocked == 1         \* a claim request's amountLocked ranges over 0..MaxLocked
MaxTotalClaim == 10    \* the largest maxTotalClaim of a create request
MaxBatch == 3          \* the longest request of a batch getter
NumCalls == 3          \* calls in progress at once on one client

\* ------------------------------------------------------- program constants
SendRate == 1          \* constructor default: sendRate = 1

\* --------------------------------------------------------------- constants
NotFound == [found |-> FALSE]  \* null result of an account fetch
NoKey == "NoKey"               \* invoker.publicKey is null / undefined
NoTx == [built |-> FALSE]      \* no transaction prepared yet
NoSig == "NoSig"               \* no signature returned yet
NATIVE_MINT == "NATIVE_MINT"
DistId == "distributorId"      \* data.id of claim and clawback
Wallet == "wallet"             \* the invoker's public key when it has one

NoArgs == [none |-> TRUE]      \* no call made yet

Settled == {"done", "failed"}   \* the call's promise is resolved or rejected

VARIABLES
    now,              \* Date.now() / 1000, whole seconds
    distributor,      \* on chain: the MerkleDistributor account at DistId, or NotFound
    claimStatus,      \* on chain: the ClaimStatus account of (DistId, Wallet), or NotFound
    kind,             \* the public method in progress: "create", "claim", "clawback"
    pc,               \* where that call stands (the await it is suspended at)
    data,             \* its first argument
    extParams,        \* its second argument
    ixs,              \* the local ixs: TransactionInstruction[]
    distributorL,     \* the local `distributor` (result of MerkleDistributor.fetch)
    claimStatusL,     \* the local `claimStatus` (result of ClaimStatus.fetch)
    nowTs,            \* the local nowTs (lines 156, 255); -1 while unset
    netCalls,         \* calls this method has made on this.connection
    tx,               \* the transaction prepareTransaction built, or NoTx
    signature,        \* the signature wrappedSignAndExecuteTransaction returned
    error,            \* the Error the call threw, or "none"
    onChain,          \* on chain: the account at each address the getters ask for
    batch,            \* the batch getter in progress: its request and its result
    cur,              \* the call whose continuation runs next (its locals are the ones above)
    saved,            \* the locals of every other call in progress, suspended at an await
    throttle          \* this.sendThrottler: the sends waiting and the sends in flight

callVars == <<now, distributor, claimStatus, kind, pc, data, extParams, ixs,
              distributorL, claimStatusL, nowTs, netCalls, tx, signature, error>>

batchVars == <<onChain, batch>>

concVars == <<cur, saved, throttle>>

\* What no step of create, claim or clawback touches.
aside == <<batchVars, concVars>>

vars == <<callVars, batchVars, concVars>>

chain == <<distributor, claimStatus>>
locals == <<distributorL, claimStatusL, nowTs>>

\* ------------------------------------------------------- address derivation
\* ata(mint, owner, tokenProgramId): the associated token account of owner.
ata(mint, owner) == <<"ata", mint, owner>>

\* getDistributorPda(programId, mint, version)
getDistributorPda(mint, version) == <<"distributor", mint, version>>

\* getClaimantStatusPda(programId, distributor, claimant)
getClaimantStatusPda(dist, claimant) == <<"claimStatus", dist, claimant>>

\* -------------------------------------------------------------- conversions
\* BN.prototype.toString(): the decimal digits of a non-negative amount.
RECURSIVE BNToString(_)
BNToString(n) ==
    IF n < 10 THEN <<n>> ELSE Append(BNToString(n \div 10), n % 10)

\* BigInt(string): the value of a sequence of decimal digits.
RECURSIVE BigInt(_)
BigInt(s) ==
    IF Len(s) = 0 THEN 0
    ELSE BigInt(SubSeq(s, 1, Len(s) - 1)) * 10 + s[Len(s)]

\* ------------------------------------------------------------- instructions
Ix(k, args, accounts) == [kind |-> k, args |-> args, accounts |-> accounts]

KindsOf(list) == [i \in 1..Len(list) |-> list[i].kind]

\* prepareBaseInstructions(connection, extParams): the compute budget prefix
\* the caller asked for (none when extParams sets no compute price).
prepareBaseInstructions(ext) ==
    IF ext.computePrice
    THEN <<Ix("computeBudget", NoArgs, NoArgs)>>
    ELSE <<>>

\* prepareWrappedAccount(connection, owner, amount): the instructions that
\* fund the owner's wrapped native token account with amount.
prepareWrappedAccount(owner, amount) ==
    <<Ix("wrapNative", [amount |-> amount],
         [owner |-> owner, to |-> ata(NATIVE_MINT, owner)]),
      Ix("wrapNative", NoArgs, [to |-> ata(NATIVE_MINT, owner)])>>

\* checkOrCreateAtaBatch(connection, [owner], mint, invoker, tokenProgramId):
\* one creation instruction when the owner's token account does not exist.
checkOrCreateAtaBatch(owner, mint, exists) ==
    IF exists THEN <<>>
    ELSE <<Ix("createAta", NoArgs, [owner |-> owner, mint |-> mint])>>

\* ---------------------------------------------------------- invoker identity
\* Variant: the invoker check is left out.
InvokerMissingNever(ext) == FALSE

\* !extParams.invoker.publicKey

InvokerMissing(ext) == ext.invoker = NoKey

\* ------------------------------------------------------------------- create
CreateMint(d, ext) == IF ext.isNative THEN NATIVE_MINT ELSE d.mint

\* Variant: lte for lt, so a window equal to the unlock period is rejected.
VestingRejectedLte(d, nowT) ==
    LET endVestingTs == IF d.endVestingTs = 0 THEN nowT ELSE d.endVestingTs
        startVestingTs == IF d.startVestingTs = 0 THEN nowT ELSE d.startVestingTs
    IN  /\ endVestingTs > startVestingTs
        /\ endVestingTs - startVestingTs <= d.unlockPeriod

\* Variant: a zero timestamp is compared as it is.
VestingRejectedNoSubstitution(d, nowT) ==
    /\ d.endVestingTs > d.startVestingTs
    /\ d.endVestingTs - d.startVestingTs < d.unlockPeriod

\* lines 156-159: a zero timestamp stands for the current time; the window is
\* rejected when it is positive and shorter than the unlock period.
VestingRejected(d, nowT) ==
    LET endVestingTs == IF d.endVestingTs = 0 THEN nowT ELSE d.endVestingTs
        startVestingTs == IF d.startVestingTs = 0 THEN nowT ELSE d.startVestingTs
    IN  /\ endVestingTs > startVestingTs
        /\ endVestingTs - startVestingTs < d.unlockPeriod

\* lines 130-150 and 163: newDistributor(args, accounts, programId)
NewDistributorIx(d, ext) ==
    LET mint == CreateMint(d, ext)
        distributorPublicKey == getDistributorPda(mint, d.version)
    IN  Ix("newDistributor",
           [version |-> d.version, maxTotalClaim |-> d.maxTotalClaim,
            unlockPeriod |-> d.unlockPeriod,
            startVestingTs |-> d.startVestingTs,
            endVestingTs |-> d.endVestingTs],
           [distributor |-> distributorPublicKey,
            clawbackReceiver |-> ata(mint, ext.invoker),
            mint |-> mint,
            tokenVault |-> ata(mint, distributorPublicKey),
            admin |-> ext.invoker])

\* lines 164-175: createTransferCheckedInstruction(senderTokens, mint,
\* tokenVault, invoker, BigInt(maxTotalClaim.toString()), decimals, ...)
TransferCheckedIx(d, ext) ==
    LET mint == CreateMint(d, ext)
        distributorPublicKey == getDistributorPda(mint, d.version)
    IN  Ix("transferChecked",
           [amount |-> BigInt(BNToString(d.maxTotalClaim))],
           [source |-> ata(mint, ext.invoker),
            mint |-> mint,
            destination |-> ata(mint, distributorPublicKey),
            owner |-> ext.invoker])

\* Variant: the transfer is pushed before the create-distributor instruction.
CreateTailSwapped(d, ext) == <<TransferCheckedIx(d, ext), NewDistributorIx(d, ext)>>

\* lines 163-175: the two pushes that end a create composition.
CreateTail(d, ext) == <<NewDistributorIx(d, ext), TransferCheckedIx(d, ext)>>

CreateData ==
    [mint : {"mintA"}, version : {0},
     maxTotalClaim : {1, MaxTotalClaim},
     unlockPeriod : 0..MaxPeriod,
     startVestingTs : 0..MaxTs,
     endVestingTs : 0..(MaxTs + 2)]

CreateExt ==
    [invoker : {NoKey, Wallet}, isNative : BOOLEAN, computePrice : BOOLEAN]

InteractExt ==
    [invoker : {NoKey, Wallet}, computePrice : BOOLEAN]

\* A public method is entered: every local of the previous call is gone.
Enter(k, d, ext) ==
    /\ pc = "idle"
    /\ kind' = k
    /\ data' = d
    /\ extParams' = ext
    /\ distributorL' = NotFound
    /\ claimStatusL' = NotFound
    /\ nowTs' = -1
    /\ tx' = NoTx
    /\ signature' = NoSig
    /\ UNCHANGED <<now, chain>>
    /\ UNCHANGED aside

Throw(e) ==
    /\ pc' = "failed"
    /\ error' = e

\* lines 93-94, 119-125: create calls prepareCreateInstructions, which checks
\* the invoker, takes the base instructions and asks for the mint.
CreateCallWith(d, ext) ==
    /\ Enter("create", d, ext)
    /\ IF InvokerMissing(ext)
       THEN /\ Throw("InvokerPublicKey")
            /\ ixs' = <<>>
            /\ netCalls' = 0
       ELSE /\ ixs' = prepareBaseInstructions(ext)
            /\ netCalls' = 1
            /\ pc' = "getMint"
            /\ error' = "none"

CreateCall == \E d \in CreateData, ext \in CreateExt : CreateCallWith(d, ext)

\* lines 156-177: the vesting check, then the two instructions.
CreateCompose(list) ==
    /\ nowTs' = now
    /\ IF VestingRejected(data, now)
       THEN /\ Throw("UnlockPeriod")
            /\ ixs' = list
       ELSE /\ ixs' = list \o CreateTail(data, extParams)
            /\ pc' = "composed"
            /\ error' = error

\* lines 125-154: getMintAndProgram answers (or throws); the addresses are
\* derived; a native campaign asks for the wrapped account.
CreateMintFetched ==
    /\ kind = "create" /\ pc = "getMint"
    /\ \/ /\ Throw("FetchFailed")
          /\ UNCHANGED <<ixs, nowTs, netCalls>>
       \/ /\ extParams.isNative
          /\ pc' = "wrap"
          /\ netCalls' = netCalls + 1
          /\ UNCHANGED <<ixs, nowTs, error>>
       \/ /\ ~extParams.isNative
          /\ CreateCompose(ixs)
          /\ UNCHANGED netCalls
    /\ UNCHANGED <<now, chain, kind, data, extParams, distributorL,
                   claimStatusL, tx, signature>>
    /\ UNCHANGED aside

\* lines 152-177: prepareWrappedAccount answers (or throws).
CreateWrapped ==
    /\ kind = "create" /\ pc = "wrap"
    /\ \/ /\ Throw("FetchFailed")
          /\ UNCHANGED <<ixs, nowTs>>
       \/ CreateCompose(ixs \o prepareWrappedAccount(extParams.invoker,
                                                    data.maxTotalClaim))
    /\ UNCHANGED <<now, chain, kind, data, extParams, distributorL,
                   claimStatusL, netCalls, tx, signature>>
    /\ UNCHANGED aside

\* ------------------------------------------------- transaction pipeline
\* Variant: the transaction is built of the first instruction alone.
PrepareTransactionFirstOnly(k) ==
    /\ kind = k /\ pc = "composed"
    /\ netCalls' = netCalls + 1
    /\ \/ /\ Throw("FetchFailed")
          /\ tx' = tx
       \/ /\ tx' = [built |-> TRUE, ixs |-> SubSeq(ixs, 1, 1)]
          /\ pc' = "prepared"
          /\ error' = error
    /\ UNCHANGED <<now, chain, kind, data, extParams, ixs, locals, signature>>
    /\ UNCHANGED aside

\* lines 95, 182, 265: prepareTransaction(connection, ixs, publicKey) reads a
\* recent blockhash and builds one transaction of all of ixs.
PrepareTransaction(k) ==
    /\ kind = k /\ pc = "composed"
    /\ netCalls' = netCalls + 1
    /\ \/ /\ Throw("FetchFailed")
          /\ tx' = tx
       \/ /\ tx' = [built |-> TRUE, ixs |-> ixs]
          /\ pc' = "prepared"
          /\ error' = error
    /\ UNCHANGED <<now, chain, kind, data, extParams, ixs, locals, signature>>
    /\ UNCHANGED aside

\* The program executes a transaction atomically: a new-claim creates the
\* ClaimStatus account and fails when the account exists.
ProgramAccepts(t) ==
    \A i \in 1..Len(t) : t[i].kind = "newClaim" => claimStatus = NotFound

ProgramEffect(t) ==
    IF \E i \in 1..Len(t) : t[i].kind = "newClaim"
    THEN LET i == CHOOSE j \in 1..Len(t) : t[j].kind = "newClaim"
         IN  [found |-> TRUE, lockedAmount |-> t[i].args.amountLocked,
              unlockedAmount |-> t[i].args.amountUnlocked]
    ELSE claimStatus

\* lines 96-112, 183-195, 266-278: wrappedSignAndExecuteTransaction sends the
\* transaction; the call returns its signature or throws.
SignAndExecute(k) ==
    /\ kind = k /\ pc = "prepared"
    /\ netCalls' = netCalls + 1
    /\ \/ /\ Throw("SubmissionFailed")
          /\ UNCHANGED <<signature, claimStatus>>
       \/ /\ ProgramAccepts(tx.ixs)
          /\ claimStatus' = ProgramEffect(tx.ixs)
          /\ signature' = "sig"
          /\ pc' = "done"
          /\ error' = error
    /\ UNCHANGED <<now, distributor, kind, data, extParams, ixs, locals, tx>>
    /\ UNCHANGED aside

CreatePrepareTransaction == PrepareTransaction("create")

CreateSignAndExecute == SignAndExecute("create")

\* -------------------------------------------------------------------- claim
\* Variants of the unlock condition: claimStatus not consulted; gt for gte;
\* startTs not subtracted; amountLocked not tested.
UnlockDueNoStatus(status, amountLocked, nowT, dist) ==
    /\ amountLocked > 0
    /\ nowT - dist.startTs >= dist.unlockPeriod

UnlockDueGt(status, amountLocked, nowT, dist) ==
    \/ status.found
    \/ /\ amountLocked > 0
       /\ nowT - dist.startTs > dist.unlockPeriod

UnlockDueNoStart(status, amountLocked, nowT, dist) ==
    \/ status.found
    \/ /\ amountLocked > 0
       /\ nowT >= dist.unlockPeriod

UnlockDueAnyAmount(status, amountLocked, nowT, dist) ==
    \/ status.found
    \/ nowT - dist.startTs >= dist.unlockPeriod

\* line 256: claimStatus || (amountLocked.gtn(0) &&
\*           nowTs.sub(distributor.startTs).gte(distributor.unlockPeriod))
UnlockDue(status, amountLocked, nowT, dist) ==
    \/ status.found
    \/ /\ amountLocked > 0
       /\ nowT - dist.startTs >= dist.unlockPeriod

\* lines 233-244: the accounts shared by newClaim and claimLocked.
ClaimAccounts(d, ext, dist) ==
    [distributor |-> d.id,
     claimStatus |-> getClaimantStatusPda(d.id, ext.invoker),
     from |-> dist.tokenVault,
     to |-> ata(dist.mint, ext.invoker),
     claimant |-> ext.invoker,
     mint |-> dist.mint]

\* lines 247-252: newClaim(args, accounts, programId)
NewClaimIx(d, ext, dist) ==
    Ix("newClaim",
       [amountLocked |-> d.amountLocked, amountUnlocked |-> d.amountUnlocked,
        proof |-> d.proof],
       ClaimAccounts(d, ext, dist))

\* line 257: claimLocked(accounts, programId)
ClaimLockedIx(d, ext, dist) == Ix("claimLocked", NoArgs, ClaimAccounts(d, ext, dist))

\* Variants of the claim pushes: newClaim pushed whatever claimStatus is;
\* claimLocked pushed before newClaim.
ClaimTailAlwaysNew(status, d, ext, nowT, dist) ==
    <<NewClaimIx(d, ext, dist)>>
    \o (IF UnlockDue(status, d.amountLocked, nowT, dist)
        THEN <<ClaimLockedIx(d, ext, dist)>> ELSE <<>>)

ClaimTailLockedFirst(status, d, ext, nowT, dist) ==
    (IF UnlockDue(status, d.amountLocked, nowT, dist)
     THEN <<ClaimLockedIx(d, ext, dist)>> ELSE <<>>)
    \o (IF ~status.found THEN <<NewClaimIx(d, ext, dist)>> ELSE <<>>)

\* lines 246-258: what the claim composer pushes after the setup instructions.
ClaimTail(status, d, ext, nowT, dist) ==
    (IF ~status.found THEN <<NewClaimIx(d, ext, dist)>> ELSE <<>>)
    \o (IF UnlockDue(status, d.amountLocked, nowT, dist)
        THEN <<ClaimLockedIx(d, ext, dist)>> ELSE <<>>)

ClaimData ==
    [id : {DistId}, amountLocked : 0..MaxLocked, amountUnlocked : {1},
     proof : {<<"node">>}]

ClawbackData == [id : {DistId}]

\* lines 180-181, 202-207 (claim) and 263-264, 285-290 (clawback): the call
\* checks the invoker and asks for the distributor account.
InteractCall(k, d, ext) ==
    /\ Enter(k, d, ext)
    /\ ixs' = <<>>
    /\ IF InvokerMissing(ext)
       THEN /\ Throw("InvokerPublicKey")
            /\ netCalls' = 0
       ELSE /\ netCalls' = 1
            /\ pc' = "fetchDistributor"
            /\ error' = "none"

ClaimCall == \E d \in ClaimData, ext \in InteractExt : InteractCall("claim", d, ext)

\* Variant: a missing distributor account is not checked for.
DistributorFetchedUnchecked(k) ==
    /\ kind = k /\ pc = "fetchDistributor"
    /\ \/ /\ Throw("FetchFailed")
          /\ UNCHANGED <<distributorL, netCalls>>
       \/ /\ distributorL' = distributor
          /\ pc' = "getMint"
          /\ netCalls' = netCalls + 1
          /\ error' = error
    /\ UNCHANGED <<now, chain, kind, data, extParams, ixs, claimStatusL, nowTs,
                   tx, signature>>
    /\ UNCHANGED aside

\* lines 207-213 and 290-296: MerkleDistributor.fetch answers (or throws); a
\* missing account is an error, else the mint is asked for.
DistributorFetched(k) ==
    /\ kind = k /\ pc = "fetchDistributor"
    /\ \/ /\ Throw("FetchFailed")
          /\ UNCHANGED <<distributorL, netCalls>>
       \/ /\ distributorL' = distributor
          /\ IF ~distributor.found
             THEN /\ Throw("AccountInfo")
                  /\ UNCHANGED netCalls
             ELSE /\ pc' = "getMint"
                  /\ netCalls' = netCalls + 1
                  /\ error' = error
    /\ UNCHANGED <<now, chain, kind, data, extParams, ixs, claimStatusL, nowTs,
                   tx, signature>>
    /\ UNCHANGED aside

\* lines 213-223 and 296-306: getMintAndProgram answers (or throws); the base
\* instructions open the list and the invoker's token account is looked up.
MintFetched(k) ==
    /\ kind = k /\ pc = "getMint"
    /\ \/ /\ Throw("FetchFailed")
          /\ UNCHANGED <<ixs, netCalls>>
       \/ /\ ixs' = prepareBaseInstructions(extParams)
          /\ pc' = "checkAta"
          /\ netCalls' = netCalls + 1
          /\ error' = error
    /\ UNCHANGED <<now, chain, kind, data, extParams, locals, tx, signature>>
    /\ UNCHANGED aside

ClaimDistributorFetched == DistributorFetched("claim")

ClaimMintFetched == MintFetched("claim")

\* lines 215-231: checkOrCreateAtaBatch answers (or throws); its instructions
\* are pushed, the addresses derived and the ClaimStatus account asked for.
ClaimAtaChecked ==
    /\ kind = "claim" /\ pc = "checkAta"
    /\ \/ /\ Throw("FetchFailed")
          /\ UNCHANGED <<ixs, netCalls>>
       \/ \E exists \in BOOLEAN :
            /\ ixs' = ixs \o checkOrCreateAtaBatch(extParams.invoker,
                                                  distributorL.mint, exists)
            /\ pc' = "fetchClaimStatus"
            /\ netCalls' = netCalls + 1
            /\ error' = error
    /\ UNCHANGED <<now, chain, kind, data, extParams, locals, tx, signature>>
    /\ UNCHANGED aside

\* lines 231-260: ClaimStatus.fetch answers (or throws); the claim
\* instructions are pushed and the list returned.
ClaimStatusFetched ==
    /\ kind = "claim" /\ pc = "fetchClaimStatus"
    /\ \/ /\ Throw("FetchFailed")
          /\ UNCHANGED <<ixs, claimStatusL, nowTs>>
       \/ /\ claimStatusL' = claimStatus
          /\ nowTs' = now
          /\ ixs' = ixs \o ClaimTail(claimStatus, data, extParams, now, distributorL)
          /\ pc' = "composed"
          /\ error' = error
    /\ UNCHANGED <<now, chain, kind, data, extParams, distributorL, netCalls,
                   tx, signature>>
    /\ UNCHANGED aside

ClaimPrepareTransaction == PrepareTransaction("claim")

ClaimSignAndExecute == SignAndExecute("claim")

\* ----------------------------------------------------------------- clawback
\* lines 307-317: clawback(accounts, programId)
ClawbackIx(d, ext, dist) ==
    Ix("clawback", NoArgs,
       [distributor |-> d.id,
        from |-> dist.tokenVault,
        to |-> dist.clawbackReceiver,
        admin |-> ext.invoker,
        mint |-> dist.mint])

ClawbackCall ==
    \E d \in ClawbackData, ext \in InteractExt : InteractCall("clawback", d, ext)

ClawbackDistributorFetched == DistributorFetched("clawback")

ClawbackMintFetched == MintFetched("clawback")

\* lines 298-319: checkOrCreateAtaBatch answers (or throws); its instructions
\* and the clawback instruction are pushed and the list returned.
ClawbackAtaChecked ==
    /\ kind = "clawback" /\ pc = "checkAta"
    /\ \/ /\ Throw("FetchFailed")
          /\ ixs' = ixs
       \/ \E exists \in BOOLEAN :
            /\ ixs' = ixs \o checkOrCreateAtaBatch(extParams.invoker,
                                                  distributorL.mint, exists)
                          \o <<ClawbackIx(data, extParams, distributorL)>>
            /\ pc' = "composed"
            /\ error' = error
    /\ UNCHANGED <<now, chain, kind, data, extParams, locals, netCalls, tx,
                   signature>>
    /\ UNCHANGED aside

ClawbackPrepareTransaction == PrepareTransaction("clawback")

ClawbackSignAndExecute == SignAndExecute("clawback")

\* The caller has the result (lines 108-112, 195, 278) or the error: nothing
\* of the call remains.
Return ==
    /\ pc \in Settled
    /\ pc' = "idle"
    /\ kind' = "none"
    /\ data' = NoArgs
    /\ extParams' = NoArgs
    /\ ixs' = <<>>
    /\ distributorL' = NotFound
    /\ claimStatusL' = NotFound
    /\ nowTs' = -1
    /\ netCalls' = 0
    /\ tx' = NoTx
    /\ signature' = NoSig
    /\ error' = "none"
    /\ UNCHANGED <<now, chain>>
    /\ UNCHANGED aside

\* -------------------------------------------------------------------- clock
Tick ==
    /\ now < MaxNow
    /\ now' = now + 1
    /\ UNCHANGED <<chain, kind, pc, data, extParams, ixs, locals, netCalls,
                   tx, signature, error>>
    /\ UNCHANGED aside

\* --------------------------------------------------------------------- spec
Distributors ==
    [found : {TRUE}, mint : {"mintA"}, tokenVault : {"vault"},
     clawbackReceiver : {"receiver"}, admin : {"admin"},
     startTs : 0..MaxTs, unlockPeriod : 0..MaxPeriod]

ClaimStatuses == [found : {TRUE}, lockedAmount : {0}, unlockedAmount : {1}]

InitCall ==
    /\ now = 0
    /\ kind = "none"
    /\ pc = "idle"
    /\ data = NoArgs
    /\ extParams = NoArgs
    /\ ixs = <<>>
    /\ distributorL = NotFound
    /\ claimStatusL = NotFound
    /\ nowTs = -1
    /\ netCalls = 0
    /\ tx = NoTx
    /\ signature = NoSig
    /\ error = "none"

ClaimNext ==
    \/ ClaimCall
    \/ ClaimDistributorFetched
    \/ ClaimMintFetched
    \/ ClaimAtaChecked
    \/ ClaimStatusFetched
    \/ ClaimPrepareTransaction
    \/ ClaimSignAndExecute

\* The three public methods, called one after another on a chain that holds
\* no distributor or the one with the latest start and the longest period.
NoAccounts == [k \in {} |-> NotFound]

NoBatch == [op |-> "none", settled |-> TRUE]

IdleThrottle == [queue |-> <<>>, running |-> {}]

\* One call at a time: no other call is suspended and no send waits.
InitAlone ==
    /\ onChain = NoAccounts
    /\ batch = NoBatch
    /\ cur = 1
    /\ saved = <<>>
    /\ throttle = IdleThrottle

Init ==
    /\ InitCall
    /\ InitAlone
    /\ distributor \in {NotFound}
           \cup {d \in Distributors :
                    d.startTs = MaxTs /\ d.unlockPeriod = MaxPeriod}
    /\ claimStatus = NotFound

Next ==
    \/ Tick
    \/ CreateCall
    \/ CreateMintFetched
    \/ CreateWrapped
    \/ CreatePrepareTransaction
    \/ CreateSignAndExecute
    \/ ClaimNext
    \/ ClawbackCall
    \/ ClawbackDistributorFetched
    \/ ClawbackMintFetched
    \/ ClawbackAtaChecked
    \/ ClawbackPrepareTransaction
    \/ ClawbackSignAndExecute
    \/ Return

Spec == Init /\ [][Next]_vars

\* Claims, called one after another, on every distributor and claim status
\* the chain can hold.
InitClaim ==
    /\ InitCall
    /\ InitAlone
    /\ distributor \in Distributors \cup {NotFound}
    /\ claimStatus \in ClaimStatuses \cup {NotFound}

NextClaim ==
    \/ Tick
    \/ ClaimNext
    \/ Return

SpecClaim == InitClaim /\ [][NextClaim]_vars

\* ------------------------------------------------------------ batch getters
\* new PublicKey(id): the key an id string stands for.
PublicKey(id) == <<"key", id>>

BatchIds == {"A", "B", "C"}        \* distributor ids a getter may be asked for
BatchRecipients == {"R"}           \* recipients getClaims may be asked for

DistributorKeys == {PublicKey(id) : id \in BatchIds}

ClaimStatusKeys ==
    {getClaimantStatusPda(PublicKey(id), PublicKey(r)) :
        id \in BatchIds, r \in BatchRecipients}

\* The account stored at an address.
AccountAt(k) == [found |-> TRUE, address |-> k]

\* fetchMultiple(connection, keys, programId): the account at each key, null
\* where there is none, in the order of the keys.
fetchMultiple(keys) == [i \in 1..Len(keys) |-> onChain[keys[i]]]

\* Variant: the keys are taken in reverse order.
DistributorPublicKeysReversed(ids) ==
    [i \in 1..Len(ids) |-> PublicKey(ids[Len(ids) + 1 - i])]

\* line 330: data.ids.map((distributorId) => new PublicKey(distributorId))
DistributorPublicKeys(ids) == [i \in 1..Len(ids) |-> PublicKey(ids[i])]

\* lines 323-325: data.map(({ id, recipient }) => getClaimantStatusPda(...))
ClaimStatusPublicKeys(reqs) ==
    [i \in 1..Len(reqs) |->
        getClaimantStatusPda(PublicKey(reqs[i].id), PublicKey(reqs[i].recipient))]

SeqsUpTo(S, n) == UNION {[1..m -> S] : m \in 0..n}

\* lines 329-331: getDistributors maps the ids to keys and asks for them.
GetDistributorsCall ==
    /\ batch = NoBatch
    /\ \E ids \in SeqsUpTo(BatchIds, MaxBatch) :
          batch' = [op |-> "getDistributors", settled |-> FALSE, request |-> ids,
                    keys |-> DistributorPublicKeys(ids)]
    /\ UNCHANGED <<onChain, callVars, concVars>>

\* lines 322-326: getClaims maps the requests to keys and asks for them.
GetClaimsCall ==
    /\ batch = NoBatch
    /\ \E reqs \in SeqsUpTo([id : BatchIds, recipient : BatchRecipients], MaxBatch) :
          batch' = [op |-> "getClaims", settled |-> FALSE, request |-> reqs,
                    keys |-> ClaimStatusPublicKeys(reqs)]
    /\ UNCHANGED <<onChain, callVars, concVars>>

\* lines 326, 331: fetchMultiple answers and its result is returned as it is.
BatchFetched ==
    /\ ~batch.settled
    /\ batch' = [op |-> batch.op, settled |-> TRUE, request |-> batch.request,
                 keys |-> batch.keys, result |-> fetchMultiple(batch.keys)]
    /\ UNCHANGED <<onChain, callVars, concVars>>

InitBatch ==
    /\ InitCall
    /\ distributor = NotFound
    /\ claimStatus = NotFound
    /\ batch = NoBatch
    /\ cur = 1
    /\ saved = <<>>
    /\ throttle = IdleThrottle
    /\ \E present \in SUBSET (DistributorKeys \cup ClaimStatusKeys) :
          onChain = [k \in DistributorKeys \cup ClaimStatusKeys |->
                         IF k \in present THEN AccountAt(k) ELSE NotFound]

NextBatch ==
    \/ GetDistributorsCall
    \/ GetClaimsCall
    \/ BatchFetched

SpecBatch == InitBatch /\ [][NextBatch]_vars

\* --------------------------------------------------------- concurrent calls
\* Several calls are in progress on one client. A call runs from one await to
\* the next; at an await the event loop may resume any other call. The locals
\* above are those of the call that runs next, `saved` holds the others'.
Callers == 1..NumCalls

Regs ==
    [kind |-> kind, pc |-> pc, data |-> data, extParams |-> extParams,
     ixs |-> ixs, distributorL |-> distributorL, claimStatusL |-> claimStatusL,
     nowTs |-> nowTs, netCalls |-> netCalls, tx |-> tx,
     signature |-> signature, error |-> error]

IdleRegs ==
    [kind |-> "none", pc |-> "idle", data |-> NoArgs, extParams |-> NoArgs,
     ixs |-> <<>>, distributorL |-> NotFound, claimStatusL |-> NotFound,
     nowTs |-> -1, netCalls |-> 0, tx |-> NoTx, signature |-> NoSig,
     error |-> "none"]

Running == [running |-> TRUE]     \* the slot in `saved` of the call that runs

RegsOf(c) == IF c = cur THEN Regs ELSE saved[c]

\* lines 94-96, 181-183, 264-266 (and every await of the composers): the call
\* is suspended with its locals and another call's continuation runs.
Switch ==
    \E q \in DOMAIN saved \ {cur} :
        /\ cur' = q
        /\ saved' = [saved EXCEPT ![cur] = Regs, ![q] = Running]
        /\ kind' = saved[q].kind
        /\ pc' = saved[q].pc
        /\ data' = saved[q].data
        /\ extParams' = saved[q].extParams
        /\ ixs' = saved[q].ixs
        /\ distributorL' = saved[q].distributorL
        /\ claimStatusL' = saved[q].claimStatusL
        /\ nowTs' = saved[q].nowTs
        /\ netCalls' = saved[q].netCalls
        /\ tx' = saved[q].tx
        /\ signature' = saved[q].signature
        /\ error' = saved[q].error
        /\ UNCHANGED <<now, chain, throttle, batchVars>>

\* Variant: the transaction is sent without passing through the throttle.
SendUnthrottled(k) ==
    /\ kind = k /\ pc = "prepared"
    /\ pc' = "sending"
    /\ throttle' = [throttle EXCEPT !.running = @ \cup {cur}]
    /\ UNCHANGED <<now, chain, kind, data, extParams, ixs, locals, netCalls,
                   tx, signature, error, batchVars, cur, saved>>

\* lines 96-106, 183-193, 266-276: wrappedSignAndExecuteTransaction is given
\* { sendThrottler: this.sendThrottler }; the send waits in that queue.
SendThrottled(k) ==
    /\ kind = k /\ pc = "prepared"
    /\ pc' = "queued"
    /\ throttle' = [throttle EXCEPT !.queue = Append(@, cur)]
    /\ UNCHANGED <<now, chain, kind, data, extParams, ixs, locals, netCalls,
                   tx, signature, error, batchVars, cur, saved>>

\* The queue built by buildSendThrottler(sendRate) starts the send that has
\* waited longest once fewer than sendRate sends are in flight.
ThrottleStart ==
    /\ pc = "queued"
    /\ throttle.queue # <<>>
    /\ Head(throttle.queue) = cur
    /\ Cardinality(throttle.running) < SendRate
    /\ throttle' = [queue |-> Tail(throttle.queue),
                    running |-> throttle.running \cup {cur}]
    /\ pc' = "sending"
    /\ UNCHANGED <<now, chain, kind, data, extParams, ixs, locals, netCalls,
                   tx, signature, error, batchVars, cur, saved>>

\* Variant: a rejected send is swallowed and the call returns all the same.
SendSettledSwallowed(k) ==
    /\ kind = k /\ pc = "sending"
    /\ netCalls' = netCalls + 1
    /\ throttle' = [throttle EXCEPT !.running = @ \ {cur}]
    /\ pc' = "done"
    /\ error' = error
    /\ \/ UNCHANGED <<signature, claimStatus>>
       \/ /\ ProgramAccepts(tx.ixs)
          /\ claimStatus' = ProgramEffect(tx.ixs)
          /\ signature' = "sig"
    /\ UNCHANGED <<now, distributor, kind, data, extParams, ixs, locals, tx,
                   batchVars, cur, saved>>

\* lines 96-112, 183-195, 266-278: the send leaves the throttle; the awaited
\* promise resolves with the signature, which the call returns, or rejects,
\* and the call throws (no catch in any of the three methods).
SendSettled(k) ==
    /\ kind = k /\ pc = "sending"
    /\ netCalls' = netCalls + 1
    /\ throttle' = [throttle EXCEPT !.running = @ \ {cur}]
    /\ \/ /\ Throw("SubmissionFailed")
          /\ UNCHANGED <<signature, claimStatus>>
       \/ /\ ProgramAccepts(tx.ixs)
          /\ claimStatus' = ProgramEffect(tx.ixs)
          /\ signature' = "sig"
          /\ pc' = "done"
          /\ error' = error
    /\ UNCHANGED <<now, distributor, kind, data, extParams, ixs, locals, tx,
                   batchVars, cur, saved>>

CreateSendThrottled == SendThrottled("create")

ClaimSendThrottled == SendThrottled("claim")

ClawbackSendThrottled == SendThrottled("clawback")

CreateSendSettled == SendSettled("create")

ClaimSendSettled == SendSettled("claim")

ClawbackSendSettled == SendSettled("clawback")

\* The requests the concurrent calls make.
ConcExt == [invoker |-> Wallet, computePrice |-> FALSE]

ConcCreateExt == [invoker |-> Wallet, isNative |-> FALSE, computePrice |-> FALSE]

ConcCreate ==
    [mint |-> "mintA", version |-> 0, maxTotalClaim |-> 1, unlockPeriod |-> 0,
     startVestingTs |-> 0, endVestingTs |-> 0]

ConcClaim ==
    [id |-> DistId, amountLocked |-> MaxLocked, amountUnlocked |-> 1,
     proof |-> <<"node">>]

ConcClawback == [id |-> DistId]

\* Every call of `callers` is yet to be made; the first runs first.
InitConc(callers) ==
    /\ InitCall
    /\ onChain = NoAccounts
    /\ batch = NoBatch
    /\ cur = 1
    /\ saved = [c \in callers |-> IF c = 1 THEN Running ELSE IdleRegs]
    /\ throttle = IdleThrottle

\* Two claims of the same claimant on the same distributor, in progress
\* together, before any ClaimStatus account exists.
RaceCallers == {1, 2}

RaceClaimCall == InteractCall("claim", ConcClaim, ConcExt)

InitRace ==
    /\ InitConc(RaceCallers)
    /\ distributor \in Distributors
    /\ claimStatus = NotFound

RaceStep ==
    \/ RaceClaimCall
    \/ ClaimDistributorFetched
    \/ ClaimMintFetched
    \/ ClaimAtaChecked
    \/ ClaimStatusFetched
    \/ ClaimPrepareTransaction
    \/ ClaimSendThrottled
    \/ ThrottleStart
    \/ ClaimSendSettled

NextRace ==
    \/ RaceStep
    \/ Switch

SpecRace == InitRace /\ [][NextRace]_vars

\* NumCalls calls in progress together, one each: a create, a clawback, a
\* claim, a create, ...
KindOf(c) == <<"create", "clawback", "claim">>[((c - 1) % 3) + 1]

ConcDistributor ==
    [found |-> TRUE, mint |-> "mintA", tokenVault |-> "vault",
     clawbackReceiver |-> "receiver", admin |-> "admin",
     startTs |-> 0, unlockPeriod |-> 0]

ThrottleCreateCall ==
    /\ KindOf(cur) = "create"
    /\ CreateCallWith(ConcCreate, ConcCreateExt)

ThrottleClawbackCall ==
    /\ KindOf(cur) = "clawback"
    /\ InteractCall("clawback", ConcClawback, ConcExt)

ThrottleClaimCall ==
    /\ KindOf(cur) = "claim"
    /\ InteractCall("claim", ConcClaim, ConcExt)

InitThrottle ==
    /\ InitConc(Callers)
    /\ distributor = ConcDistributor
    /\ claimStatus = NotFound

NextThrottle ==
    \/ ThrottleCreateCall
    \/ CreateMintFetched
    \/ CreatePrepareTransaction
    \/ CreateSendThrottled
    \/ CreateSendSettled
    \/ ThrottleClawbackCall
    \/ ClawbackDistributorFetched
    \/ ClawbackMintFetched
    \/ ClawbackAtaChecked
    \/ ClawbackPrepareTransaction
    \/ ClawbackSendThrottled
    \/ ClawbackSendSettled
    \/ ThrottleClaimCall
    \/ ClaimDistributorFetched
    \/ ClaimMintFetched
    \/ ClaimAtaChecked
    \/ ClaimStatusFetched
    \/ ClaimPrepareTransaction
    \/ ClaimSendThrottled
    \/ ClaimSendSettled
    \/ ThrottleStart
    \/ Switch

SpecThrottle == InitThrottle /\ [][NextThrottle]_vars

\* ------------------------------------------------------------------- claims
IsClaimIx(ix) == ix.kind \in {"newClaim", "claimLocked"}

IsSetupIx(ix) == ix.kind \in {"computeBudget", "createAta"}

\* The kinds of the claim instructions of a list, in order.
ClaimKinds(list) == KindsOf(SelectSeq(list, IsClaimIx))

\* prepareClaimInstructions has run lines 246-258 (nowTs is set at line 255).
ClaimComposed == kind = "claim" /\ nowTs >= 0

\* The unlock was not yet due when the composer read the clock.
NotDueAtCompose ==
    nowTs - distributorL.startTs < distributorL.unlockPeriod

\* C1 as stated: a claim composed with a ClaimStatus present and the unlock
\* not yet due holds no claim instruction at all.
C1_NoOpSafety_Original ==
    (ClaimComposed /\ claimStatusL.found /\ NotDueAtCompose)
        => ClaimKinds(ixs) = <<>>

\* C1 as amended: a claim composed with a ClaimStatus present and the unlock
\* not yet due holds no new-claim and exactly one claim instruction,
\* claim-locked, after the setup instructions.
C1_NotDueWithStatusClaimsLocked ==
    (ClaimComposed /\ claimStatusL.found /\ NotDueAtCompose)
        => /\ ClaimKinds(ixs) = <<"claimLocked">>
           /\ ixs[Len(ixs)].kind = "claimLocked"
           /\ \A i \in 1..(Len(ixs) - 1) : IsSetupIx(ixs[i])

C1_Witness ==
    /\ ClaimComposed /\ claimStatusL.found /\ NotDueAtCompose
    /\ data.amountLocked > 0
    /\ pc = "composed"
    /\ Len(ixs) > 1

\* C2: whenever the ClaimStatus is present, whatever now, startTs,
\* unlockPeriod and amountLocked are, the claim instructions are exactly
\* [claim-locked] and the list holds no new-claim.
C2_StatusForcesClaimLocked ==
    (ClaimComposed /\ claimStatusL.found)
        => /\ ClaimKinds(ixs) = <<"claimLocked">>
           /\ \A i \in 1..Len(ixs) : ixs[i].kind # "newClaim"

C2_Witness ==
    /\ ClaimComposed /\ claimStatusL.found
    /\ data.amountLocked = 0
    /\ nowTs < distributorL.startTs
    /\ ClaimKinds(ixs) = <<"claimLocked">>

\* The unlock of the distributor on chain is due at the current time.
DueNow ==
    /\ distributor.found
    /\ now - distributor.startTs >= distributor.unlockPeriod

\* The step in which prepareClaimInstructions reads the clock and pushes the
\* claim instructions.
ClaimComposeStep ==
    kind = "claim" /\ pc = "fetchClaimStatus" /\ pc' = "composed"

\* C3: once now - startTs >= unlockPeriod holds it holds at every later time,
\* and every claim composed from then on for a request with amountLocked > 0
\* holds claim-locked, with or without a ClaimStatus.
C3_UnlockMonotonicity ==
    [][DueNow =>
          /\ DueNow'
          /\ (ClaimComposeStep /\ data.amountLocked > 0)
                => \E i \in 1..Len(ixs') : ixs'[i].kind = "claimLocked"]_vars

C3_Witness ==
    /\ ClaimComposed /\ pc = "composed"
    /\ ~claimStatusL.found
    /\ data.amountLocked > 0
    /\ nowTs - distributorL.startTs > distributorL.unlockPeriod
    /\ distributorL.unlockPeriod > 0
    /\ ClaimKinds(ixs) = <<"newClaim", "claimLocked">>

\* C4 as stated: with the ClaimStatus NotFound, the first element of the
\* composed list is new-claim.
C4_FirstElement_Original ==
    (ClaimComposed /\ ~claimStatusL.found) => ixs[1].kind = "newClaim"

\* C4 as amended: with the ClaimStatus NotFound, new-claim, carrying the
\* request's amountLocked, amountUnlocked and proof, is the first claim
\* instruction: it directly follows the setup (base and token account)
\* instructions, and is the first element when there are none.
C4_NewClaimFirstAfterSetup ==
    (ClaimComposed /\ ~claimStatusL.found)
        => \E n \in 1..Len(ixs) :
              /\ \A i \in 1..(n - 1) : IsSetupIx(ixs[i])
              /\ ixs[n].kind = "newClaim"
              /\ ixs[n].args.amountLocked = data.amountLocked
              /\ ixs[n].args.amountUnlocked = data.amountUnlocked
              /\ ixs[n].args.proof = data.proof
              /\ \A i \in (n + 1)..Len(ixs) : ixs[i].kind = "claimLocked"
              /\ (n = 1 <=> ~extParams.computePrice /\ ixs[1].kind # "createAta")

C4_Witness ==
    /\ ClaimComposed /\ ~claimStatusL.found
    /\ KindsOf(ixs) = <<"computeBudget", "createAta", "newClaim", "claimLocked">>

\* The composer's claim instructions for a first claim of amountLocked = 100
\* on the distributor with startTs = 1000 and unlockPeriod = 500, at time t.
ScenarioKinds(t) ==
    KindsOf(ClaimTail(NotFound,
                      [id |-> DistId, amountLocked |-> 100,
                       amountUnlocked |-> 1, proof |-> <<"node">>],
                      [invoker |-> Wallet, computePrice |-> FALSE],
                      t,
                      [found |-> TRUE, mint |-> "mintA", tokenVault |-> "vault",
                       clawbackReceiver |-> "receiver", admin |-> "admin",
                       startTs |-> 1000, unlockPeriod |-> 500]))

\* C5: a first claim (ClaimStatus NotFound) with amountLocked > 0 is
\* [new-claim] while now - startTs < unlockPeriod and [new-claim,
\* claim-locked] from now - startTs = unlockPeriod on; in every composed list
\* new-claim precedes claim-locked and each appears at most once.
C5_FirstClaimByTime ==
    /\ (ClaimComposed /\ ~claimStatusL.found /\ data.amountLocked > 0)
          => ClaimKinds(ixs) = IF NotDueAtCompose
                               THEN <<"newClaim">>
                               ELSE <<"newClaim", "claimLocked">>
    /\ ClaimComposed
          => ClaimKinds(ixs) \in {<<"newClaim">>, <<"claimLocked">>,
                                  <<"newClaim", "claimLocked">>, <<>>}
    /\ ClaimComposed
          => /\ ScenarioKinds(1400) = <<"newClaim">>
             /\ ScenarioKinds(1500) = <<"newClaim", "claimLocked">>
             /\ ScenarioKinds(1600) = <<"newClaim", "claimLocked">>

C5_Witness ==
    /\ ClaimComposed /\ ~claimStatusL.found /\ data.amountLocked > 0
    /\ distributorL.startTs > 0
    /\ distributorL.unlockPeriod > 0
    /\ nowTs - distributorL.startTs = distributorL.unlockPeriod
    /\ ClaimKinds(ixs) = <<"newClaim", "claimLocked">>

\* C6: a first claim (ClaimStatus NotFound) with amountLocked = 0 never holds
\* claim-locked, however long the unlock period has been over: its claim
\* instructions are exactly [new-claim].
C6_ZeroLockedShortCircuit ==
    (ClaimComposed /\ ~claimStatusL.found /\ data.amountLocked = 0)
        => /\ ClaimKinds(ixs) = <<"newClaim">>
           /\ \A i \in 1..Len(ixs) : ixs[i].kind # "claimLocked"

C6_Witness ==
    /\ ClaimComposed /\ ~claimStatusL.found /\ data.amountLocked = 0
    /\ nowTs - distributorL.startTs > distributorL.unlockPeriod
    /\ ClaimKinds(ixs) = <<"newClaim">>

\* prepareCreateInstructions has run the vesting check (nowTs is set at line
\* 156, after the invoker check and the reads before it).
CreateChecked == kind = "create" /\ nowTs >= 0

\* prepareCreateInstructions has returned its list.
CreateComposed == CreateChecked /\ error # "UnlockPeriod"

\* Create parameters with endVestingTs > startVestingTs > 0.
PositiveWindow ==
    /\ kind = "create"
    /\ data.startVestingTs > 0
    /\ data.endVestingTs > data.startVestingTs

WindowTooShort == data.endVestingTs - data.startVestingTs < data.unlockPeriod

\* C7: for create parameters with endVestingTs > startVestingTs > 0, the
\* composition is rejected with the unlock-period error exactly when
\* endVestingTs - startVestingTs < unlockPeriod: the error is thrown only
\* then, a composition never returns a list then, and a composition that
\* reaches the check throws it if and only if then (equality is accepted).
C7_VestingInvariant ==
    PositiveWindow =>
        /\ error = "UnlockPeriod" => WindowTooShort
        /\ WindowTooShort => pc \notin {"composed", "prepared", "done"}
        /\ CreateChecked => (error = "UnlockPeriod" <=> WindowTooShort)
        /\ CreateChecked /\ ~WindowTooShort
              => \E i \in 1..Len(ixs) : ixs[i].kind = "newDistributor"

C7_Witness ==
    /\ PositiveWindow /\ CreateChecked
    /\ data.unlockPeriod > 0
    /\ data.endVestingTs - data.startVestingTs = data.unlockPeriod
    /\ pc = "composed"

\* C8: a create rejected for an unlock period longer than the vesting window
\* is rejected before any call on the connection.
C8_VestingFailsBeforeNetwork ==
    (kind = "create" /\ error = "UnlockPeriod") => netCalls = 0

\* C9: a create, claim or clawback whose invoker has no public key has failed
\* with the invoker error, having made no call on the connection, composed no
\* instruction, prepared no transaction and submitted nothing.
C9_MissingInvokerFailsFast ==
    (kind \in {"create", "claim", "clawback"} /\ extParams.invoker = NoKey)
        => /\ pc = "failed"
           /\ error = "InvokerPublicKey"
           /\ netCalls = 0
           /\ ixs = <<>>
           /\ tx = NoTx
           /\ signature = NoSig
           /\ ~distributorL.found /\ ~claimStatusL.found

C9_Witness ==
    /\ kind = "clawback" /\ extParams.invoker = NoKey
    /\ extParams.computePrice
    /\ distributor.found
    /\ pc = "failed" /\ error = "InvokerPublicKey"

\* C10: every list a create composition returns is the base instructions,
\* then the wrap instructions exactly when the campaign is native-funded,
\* then one create-distributor instruction, then, last, one transfer-checked
\* instruction of exactly maxTotalClaim from the admin's token account into
\* the distributor's vault.
C10_CreateInstructionOrder ==
    CreateComposed =>
        LET n == Len(ixs)
            mint == IF extParams.isNative THEN NATIVE_MINT ELSE data.mint
        IN  /\ n >= 2
            /\ ixs[n].kind = "transferChecked"
            /\ ixs[n].args.amount = data.maxTotalClaim
            /\ ixs[n - 1].kind = "newDistributor"
            /\ ixs[n - 1].args.maxTotalClaim = data.maxTotalClaim
            /\ ixs[n - 1].accounts.admin = extParams.invoker
            /\ ixs[n - 1].accounts.mint = mint
            /\ ixs[n].accounts.mint = mint
            /\ ixs[n].accounts.owner = ixs[n - 1].accounts.admin
            /\ ixs[n].accounts.source = <<"ata", mint, extParams.invoker>>
            /\ ixs[n].accounts.destination = ixs[n - 1].accounts.tokenVault
            /\ ixs[n].accounts.destination
                   = <<"ata", mint, ixs[n - 1].accounts.distributor>>
            /\ \A i \in 1..(n - 2) : ixs[i].kind \in {"computeBudget", "wrapNative"}
            /\ \A i \in 1..(n - 2) : \A j \in (i + 1)..(n - 2) :
                   ~(ixs[i].kind = "wrapNative" /\ ixs[j].kind = "computeBudget")
            /\ (\E i \in 1..(n - 2) : ixs[i].kind = "wrapNative")
                   <=> extParams.isNative
            /\ (\E i \in 1..(n - 2) : ixs[i].kind = "computeBudget")
                   <=> extParams.computePrice

C10_Witness ==
    /\ CreateComposed
    /\ extParams.isNative
    /\ data.maxTotalClaim = MaxTotalClaim
    /\ KindsOf(ixs) = <<"computeBudget", "wrapNative", "wrapNative",
                        "newDistributor", "transferChecked">>
    /\ ixs[5].args.amount = MaxTotalClaim

\* prepareClawbackInstructions has pushed its clawback instruction.
ClawbackComposed ==
    kind = "clawback" /\ \E i \in 1..Len(ixs) : ixs[i].kind = "clawback"

\* C11: a composed clawback list holds exactly one clawback instruction, the
\* last one, and its accounts are the stored distributor's: from the stored
\* vault, to the stored clawback receiver, authorized by the stored admin.
C11_ClawbackFromStoredState ==
    ClawbackComposed =>
        LET n == Len(ixs)
        IN  /\ ixs[n].kind = "clawback"
            /\ \A i \in 1..(n - 1) : ixs[i].kind # "clawback"
            /\ ixs[n].accounts.from = distributorL.tokenVault
            /\ ixs[n].accounts.to = distributorL.clawbackReceiver
            /\ ixs[n].accounts.admin = distributorL.admin

\* The call was rejected before its composer returned a list.
CompositionFailed ==
    /\ pc = "failed"
    /\ error \in {"InvokerPublicKey", "AccountInfo", "UnlockPeriod"}
          \/ (error = "FetchFailed" /\ ~tx.built /\ nowTs < 0
                /\ \A i \in 1..Len(ixs) :
                      ixs[i].kind \notin {"clawback", "transferChecked"})

\* C13: a call ends done with a signature and one transaction holding exactly
\* its composed instructions, or failed with no signature; a transaction is
\* accepted by the chain only in the one step that sends the prepared
\* transaction; a failed composition prepares and sends nothing; a failed
\* send is the call's error and nothing follows it but the return.
C13_NoPartialSuccess ==
    [][/\ pc' = "done"
            => /\ signature' = "sig" /\ error' = "none"
               /\ tx'.built /\ tx'.ixs = ixs' /\ Len(ixs') > 0
       /\ pc' = "failed" => (signature' = NoSig /\ error' # "none")
       /\ tx'.built => tx'.ixs = ixs'
       /\ (signature' # signature /\ signature' = "sig")
            => /\ pc = "prepared" /\ pc' = "done"
               /\ tx.built /\ tx' = tx /\ ixs' = ixs
               /\ netCalls' = netCalls + 1
       /\ claimStatus' # claimStatus => (pc = "prepared" /\ pc' = "done")
       /\ CompositionFailed' => (tx' = NoTx /\ claimStatus' = claimStatus)
       /\ (pc = "prepared" /\ pc' = "failed")
            => (error' = "SubmissionFailed" /\ claimStatus' = claimStatus)
       /\ pc \in Settled => pc' \in {pc, "idle"}]_vars

C13_Witness ==
    /\ kind = "claim" /\ pc = "done" /\ signature = "sig"
    /\ Len(tx.ixs) = 4 /\ tx.ixs = ixs
    /\ claimStatus.found

\* C16: once the claimant's ClaimStatus exists on chain it is never removed
\* or created again, and every claim composed from then on holds no
\* new-claim: its claim instructions are exactly [claim-locked].
C16_NewClaimAtMostOnce ==
    [][claimStatus.found =>
          /\ claimStatus' = claimStatus
          /\ ClaimComposeStep
                => /\ ClaimKinds(ixs') = <<"claimLocked">>
                   /\ \A i \in 1..Len(ixs') : ixs'[i].kind # "newClaim"]_vars

\* A claim composed after an earlier claim of this client created the
\* ClaimStatus (the chain starts with lockedAmount = 0 at most).
C16_Witness ==
    /\ claimStatus.found /\ claimStatus.lockedAmount = MaxLocked
    /\ ClaimComposed /\ pc = "composed" /\ claimStatusL = claimStatus
    /\ data.amountLocked = 0
    /\ ClaimKinds(ixs) = <<"claimLocked">>

\* C17: every list a claim composition returns holds at least one claim
\* instruction: its claim instructions are [new-claim], [new-claim,
\* claim-locked] or [claim-locked], never none.
C17_ClaimNeverEmpty ==
    ClaimComposed
        => /\ ClaimKinds(ixs) \in {<<"newClaim">>, <<"claimLocked">>,
                                   <<"newClaim", "claimLocked">>}
           /\ Len(ixs) >= 1
           /\ IsClaimIx(ixs[Len(ixs)])

C17_Witness ==
    /\ ClaimComposed /\ claimStatusL.found /\ NotDueAtCompose
    /\ data.amountLocked = 0
    /\ Len(ixs) = 1
    /\ IsClaimIx(ixs[1])

Rejected == error = "UnlockPeriod"

\* C18: the create check puts the time read at line 156 in place of a zero
\* timestamp: with startVestingTs = 0 and endVestingTs > now it rejects iff
\* endVestingTs - now < unlockPeriod; with endVestingTs = 0 and
\* 0 < startVestingTs < now it rejects iff now - startVestingTs <
\* unlockPeriod; with both zero, or the effective end not after the
\* effective start, it never rejects.
C18_ZeroTimestampIsNow ==
    CreateChecked =>
        LET s == data.startVestingTs
            e == data.endVestingTs
            effS == IF s = 0 THEN nowTs ELSE s
            effE == IF e = 0 THEN nowTs ELSE e
        IN  /\ (s = 0 /\ e > nowTs)
                => (Rejected <=> e - nowTs < data.unlockPeriod)
            /\ (e = 0 /\ 0 < s /\ s < nowTs)
                => (Rejected <=> nowTs - s < data.unlockPeriod)
            /\ (s = 0 /\ e = 0) => ~Rejected
            /\ effE <= effS => ~Rejected

C18_Witness ==
    /\ CreateChecked /\ Rejected
    /\ data.endVestingTs = 0
    /\ 0 < data.startVestingTs /\ data.startVestingTs < nowTs
    /\ nowTs - data.startVestingTs < data.unlockPeriod

\* C19: a claim or clawback on a distributor that does not exist has failed
\* right after the distributor read: it made that one call on the connection
\* and no other (no ClaimStatus read), composed no instruction, prepared and
\* sent no transaction; and no such call gets past the read.
C19_MissingDistributorFailsAtOnce ==
    /\ (kind \in {"claim", "clawback"} /\ error = "AccountInfo")
          => /\ pc = "failed"
             /\ ~distributorL.found
             /\ netCalls = 1
             /\ ~claimStatusL.found /\ nowTs < 0
             /\ ixs = <<>>
             /\ tx = NoTx
             /\ signature = NoSig
    /\ (kind \in {"claim", "clawback"} /\ ~distributor.found)
          => /\ pc \in {"fetchDistributor", "failed"}
             /\ error \in {"none", "InvokerPublicKey", "FetchFailed", "AccountInfo"}
             /\ ixs = <<>>
             /\ netCalls <= 1

C19_Witness ==
    /\ kind = "claim" /\ error = "AccountInfo" /\ pc = "failed"
    /\ extParams.computePrice
    /\ data.amountLocked > 0

\* The key a request element of the getter in progress stands for.
RequestedKey(r) ==
    IF batch.op = "getDistributors"
    THEN <<"key", r>>
    ELSE <<"claimStatus", <<"key", r.id>>, <<"key", r.recipient>>>>

\* C15: getDistributors and getClaims return as many entries as were
\* requested; entry i is the account of the i-th request, or NotFound when
\* there is none; nothing is reordered and a repeated id gives repeated
\* entries.
C15_BatchOrderPreserved ==
    (batch.op # "none" /\ batch.settled)
        => /\ Len(batch.result) = Len(batch.request)
           /\ \A i \in 1..Len(batch.request) :
                 LET k == RequestedKey(batch.request[i])
                 IN  /\ onChain[k].found
                        => (batch.result[i].found /\ batch.result[i].address = k)
                     /\ ~onChain[k].found => batch.result[i] = NotFound

C15_Witness ==
    /\ batch.op = "getDistributors" /\ batch.settled
    /\ batch.request = <<"A", "B", "C">>
    /\ batch.result[1].found /\ batch.result[1].address = <<"key", "A">>
    /\ batch.result[2] = NotFound
    /\ batch.result[3].found /\ batch.result[3].address = <<"key", "C">>

\* ---------------------------------------------------------------- C12
HasNewClaim(t) ==
    /\ t.built
    /\ \E i \in 1..Len(t.ixs) : t.ixs[i].kind = "newClaim"

\* The call that runs cannot take a step only because its send waits in the
\* throttle behind the other call's send.
WaitsBehindOther ==
    /\ pc = "queued"
    /\ \E q \in RaceCallers \ {cur} :
         \/ saved[q].pc = "sending"
         \/ /\ saved[q].pc = "queued"
            /\ Head(throttle.queue) = q

RaceOutcome ==
    /\ \A c \in RaceCallers :
         RegsOf(c).pc = "done" => RegsOf(c).signature = "sig"
    /\ ~ \A c \in RaceCallers :
           RegsOf(c).pc = "done" /\ HasNewClaim(RegsOf(c).tx)
    /\ pc \notin Settled => (ENABLED RaceStep) \/ WaitsBehindOther

\* The send of a new-claim transaction settles while the account exists.
LoserSettles ==
    /\ pc = "sending"
    /\ HasNewClaim(tx)
    /\ claimStatus.found
    /\ cur' = cur
    /\ pc' # pc

\* C12: two claims of one claimant on one distributor, interleaved in every
\* way at their awaits. The ClaimStatus account, once created, is never
\* created again; the two calls never both return after sending a new-claim
\* transaction, and a call that returns has a signature; the call whose
\* new-claim transaction is sent when the account exists throws
\* SubmissionFailed; a call that has not settled can always take a step, or
\* waits in the throttle behind the other call, which can.
C12_SameClaimantRace ==
    /\ [] RaceOutcome
    /\ [][claimStatus.found => claimStatus' = claimStatus]_vars
    /\ [][LoserSettles =>
            /\ pc' = "failed"
            /\ error' = "SubmissionFailed"
            /\ signature' = NoSig]_vars

\* Both calls read NotFound and composed new-claim; one returned and created
\* the account, the other threw.
C12_Witness ==
    /\ \A c \in RaceCallers :
         /\ ~RegsOf(c).claimStatusL.found
         /\ HasNewClaim(RegsOf(c).tx)
    /\ claimStatus.found
    /\ \E c \in RaceCallers :
         /\ RegsOf(c).pc = "done"
         /\ \E l \in RaceCallers \ {c} :
              /\ RegsOf(l).pc = "failed"
              /\ RegsOf(l).error = "SubmissionFailed"

\* ---------------------------------------------------------------- C14
InFlight == {c \in Callers : RegsOf(c).pc = "sending"}

Waiting == {c \in Callers : RegsOf(c).pc = "queued"}

ThrottleBound ==
    /\ Cardinality(InFlight) <= SendRate
    /\ throttle.running = InFlight
    /\ {throttle.queue[i] : i \in 1..Len(throttle.queue)} = Waiting
    /\ Len(throttle.queue) = Cardinality(Waiting)

\* C14: with NumCalls create, clawback and claim calls in progress together,
\* the sends in flight are never more than SendRate; a send that starts is
\* the one at the head of the queue and a send that joins the queue joins at
\* its tail, so sends start in the order they were queued; a step of one call
\* changes no local of another call, the throttle being what they share.
C14_SubmissionThrottle ==
    /\ [] ThrottleBound
    /\ [][InFlight' \ InFlight # {} =>
            /\ throttle.queue # <<>>
            /\ InFlight' \ InFlight = {Head(throttle.queue)}
            /\ throttle'.queue = Tail(throttle.queue)]_vars
    /\ [][Len(throttle'.queue) > Len(throttle.queue) =>
            throttle'.queue = Append(throttle.queue, cur)]_vars
    /\ [][cur' = cur => saved' = saved]_vars

\* One send is in flight and two of other calls wait behind it.
C14_Witness ==
    /\ Cardinality(InFlight) = SendRate
    /\ Len(throttle.queue) >= 2
    /\ \E c \in InFlight : RegsOf(c).kind # RegsOf(throttle.queue[1]).kind

====
